---- MODULE Spec2Model ----
(***************************************************************************)
(* A model of the event-driven backtester of the gemini-trading repository *)
(* (src/backtester/*.py) and of the evaluation agent that is meant to run  *)
(* it (src/agents/eval_agent.py).                                          *)
(*                                                                         *)
(* Money is counted in thousandths of a dollar, so that the commission     *)
(* schedule of FillEvent (1.3, 0.013 * q, 0.008 * q) is integer            *)
(* arithmetic: 1300, 13 * q, 8 * q.                                        *)
(***************************************************************************)
EXTENDS Integers, Sequences, FiniteSets, TLC

\* ------------------------------------------------------------------ bounds

\* The longest history reqHistoricalData returns for one symbol.
MaxBars == 2

\* The symbol universe the callers draw from.
Symbols == {"ES", "NQ"}

\* The close of bar i of symbol s: the data are inputs, every bar distinct.
BarClose(s, i) == (IF s = "ES" THEN 100 ELSE 200) + 10 * i

\* Bar i of symbol s, as util.df / itertuples present it (date, close).
Bar(s, i) == [symbol |-> s, date |-> i, close |-> BarClose(s, i)]

\* The history of n bars of symbol s.
History(s, n) == [i \in 1..n |-> Bar(s, i)]

VARIABLES
    symbol_list,         \* IBKRDataHandler.symbol_list, set by main
    symbol_data,         \* IBKRDataHandler.symbol_data: symbol -> frame
    symbol_order,        \* insertion order of the keys of symbol_data
    latest_symbol_data,  \* IBKRDataHandler.latest_symbol_data: symbol -> list
    continue_backtest,   \* IBKRDataHandler.continue_backtest
    events,              \* the queue the data handler was constructed with
    gen,                 \* the generator made by stream_next_bar()
    published,           \* history: the bars appended/announced, in order
    late_fetch,          \* history: a fetch followed the generator's first step
    broker_events,       \* per run: the queue of its SimulatedExecutionHandler
    exec_log,            \* history, per run: the calls of execute_order
    now,                 \* per run: the wall clock datetime.utcnow() reads
    probe_qty,           \* the quantities of two fills under construction
    probe_fill,          \* the two FillEvents constructed from them
    eval_events,         \* the queue evaluate_factor makes for its run
    eval_result,         \* how the last call of evaluate_factor ended
    eval_prev,           \* history: how the call before the last ended
    cash,                \* Portfolio: the cash held, in thousandths
    port_last,           \* Portfolio: the last Fill handed to on_fill
    main_pc,             \* main: the statement it is at
    main_i,              \* main: the iterations of the loop begun
    connected,           \* main: IBKRDataHandler(...) connected
    disconnect_calls,    \* main: the calls of data_handler.disconnect()
    agent_calls,         \* main: the calls of an agent's method
    main_skipped,        \* main: the iterations ended by the continue
    main_exit,           \* main: how it left
    factor_result        \* how the last call of _apply_factor ended

dataVars == <<symbol_list, symbol_data, symbol_order, latest_symbol_data,
              continue_backtest, events, gen, published, late_fetch>>

execVars == <<broker_events, exec_log, now>>

probeVars == <<probe_qty, probe_fill>>

evalVars == <<eval_events, eval_result, eval_prev, factor_result>>

portVars == <<cash, port_last>>

mainVars == <<main_pc, main_i, connected, disconnect_calls, agent_calls,
              main_skipped, main_exit>>

\* ------------------------------------------------------------ the events

\* An absent value (Python's None) and a present one.
NoValue == [none |-> TRUE, value |-> 0]
Value(v) == [none |-> FALSE, value |-> v]

\* events.py MarketEvent.__init__
MarketEvent == [type |-> "MARKET"]

\* events.py SignalEvent.__init__
SignalEvent(symbol, datetime, signal_type) ==
    [type |-> "SIGNAL", symbol |-> symbol, datetime |-> datetime,
     signal_type |-> signal_type]

\* events.py OrderEvent.__init__
OrderEvent(symbol, order_type, quantity, direction) ==
    [type |-> "ORDER", symbol |-> symbol, order_type |-> order_type,
     quantity |-> quantity, direction |-> direction]

\* The commission schedule, in thousandths of a dollar.
MinCommission == 1300
RateTier1 == 13
RateTier2 == 8
TierLimit == 500

Max(a, b) == IF a >= b THEN a ELSE b

\* The schedule with the tier boundary off by one (quantity < 500).
commission_boundary_off(quantity) ==
    IF quantity < TierLimit
    THEN Max(MinCommission, RateTier1 * quantity)
    ELSE Max(MinCommission, RateTier2 * quantity)

\* The schedule without the minimum in its first tier.
commission_no_minimum(quantity) ==
    IF quantity <= TierLimit
    THEN RateTier1 * quantity
    ELSE Max(MinCommission, RateTier2 * quantity)

\* events.py FillEvent.calculate_ib_commission
calculate_ib_commission(quantity) ==
    IF quantity <= TierLimit
    THEN Max(MinCommission, RateTier1 * quantity)
    ELSE Max(MinCommission, RateTier2 * quantity)

\* events.py FillEvent.__init__; fill_cost and commission are NoValue for None
FillEvent(timeindex, symbol, exchange, quantity, direction, fill_cost, commission) ==
    [type |-> "FILL", timeindex |-> timeindex, symbol |-> symbol,
     exchange |-> exchange, quantity |-> quantity, direction |-> direction,
     fill_cost |-> fill_cost,
     commission |-> IF commission.none
                    THEN calculate_ib_commission(quantity)
                    ELSE commission.value]

\* The largest quantity a fill is constructed with.
MaxQty == 505

\* No FillEvent constructed yet.
NoFill == [type |-> "NONE"]

\* No fill is under construction.
ProbeIdle ==
    /\ probe_qty = <<0, 0>>
    /\ probe_fill = <<NoFill, NoFill>>

\* Two quantities, the smaller first, for which fills are to be constructed.
ProbeInit ==
    /\ probe_qty \in {<<a, b>> : a \in 0..MaxQty, b \in 0..MaxQty}
    /\ probe_qty[1] <= probe_qty[2]
    /\ probe_fill = <<NoFill, NoFill>>

\* FillEvent(...) called without a commission, once for each quantity.
ConstructFills ==
    /\ probe_fill = <<NoFill, NoFill>>
    /\ probe_fill' =
          [i \in 1..2 |-> FillEvent(0, "ES", "ARCA", probe_qty[i], "BUY",
                                    NoValue, NoValue)]
    /\ UNCHANGED <<probe_qty, dataVars, execVars, evalVars>>

\* ------------------------------------------------------- IBKRDataHandler

\* A value of symbol_data: no entry, None (util.df of no bars), or a frame.
Absent == [kind |-> "absent", rows |-> <<>>]
NoneFrame == [kind |-> "none", rows |-> <<>>]
Frame(rows) == [kind |-> "frame", rows |-> rows]

\* What util.df(bars) stores for the bars fetched. ib_insync's util.df returns
\* None for an empty list; an empty DataFrame is allowed for as well.
util_df(s, n) ==
    IF n = 0 THEN {NoneFrame, Frame(<<>>)} ELSE {Frame(History(s, n))}

\* The generator before stream_next_bar() is called.
NoGen == [state |-> "none", size |-> 0, si |-> 0, rows |-> <<>>, bi |-> 0]

\* IBKRDataHandler.__init__ (after a successful connect)
DataInit ==
    /\ symbol_list = <<>>
    /\ symbol_data = [s \in Symbols |-> Absent]
    /\ symbol_order = <<>>
    /\ latest_symbol_data = [s \in Symbols |-> <<>>]
    /\ continue_backtest = TRUE
    /\ events = <<>>
    /\ gen = NoGen
    /\ published = <<>>
    /\ late_fetch = FALSE

\* main.py line 30: data_handler.symbol_list = [contract.symbol]
SetSymbolList(s) ==
    /\ symbol_list = <<>>
    /\ symbol_list' = <<s>>
    /\ UNCHANGED <<symbol_data, symbol_order, latest_symbol_data,
                   continue_backtest, events, gen, published, late_fetch,
                   execVars, probeVars, evalVars>>

\* IBKRDataHandler.fetch_historical_data(symbol), the request returning n bars
fetch_historical_data(s, n) ==
    /\ \E f \in util_df(s, n) :
          symbol_data' = [symbol_data EXCEPT ![s] = f]
    /\ symbol_order' = IF symbol_data[s] = Absent
                       THEN Append(symbol_order, s) ELSE symbol_order
    /\ latest_symbol_data' = [latest_symbol_data EXCEPT ![s] = <<>>]
    /\ late_fetch' = (late_fetch \/ gen.state \notin {"none", "created"})
    /\ UNCHANGED <<symbol_list, continue_backtest, events, gen, published,
                   execVars, probeVars, evalVars>>

\* Calling stream_next_bar() makes the generator; none of its body runs yet.
stream_next_bar ==
    /\ gen.state = "none"
    /\ gen' = [NoGen EXCEPT !.state = "created"]
    /\ UNCHANGED <<symbol_list, symbol_data, symbol_order, latest_symbol_data,
                   continue_backtest, events, published, late_fetch,
                   execVars, probeVars, evalVars>>

\* The first key at or after position k of symbol_data.items() whose frame
\* stops the outer loop from skipping on: a frame with rows (its first bar is
\* streamed), or None (itertuples raises). Len + 1 when there is none.
RECURSIVE NextKey(_)
NextKey(k) ==
    IF k > Len(symbol_order) THEN k
    ELSE LET f == symbol_data[symbol_order[k]]
         IN  IF f.kind = "frame" /\ f.rows = <<>> THEN NextKey(k + 1) ELSE k

\* Lines 65-67: append the bar, put a MarketEvent, yield.
Emit(s, bar, g) ==
    /\ latest_symbol_data' =
          [latest_symbol_data EXCEPT ![s] = Append(@, bar)]
    /\ events' = Append(events, MarketEvent)
    /\ published' = Append(published, bar)
    /\ gen' = g

\* The generator stops without streaming: by returning or by raising.
Stop(state) ==
    /\ gen' = [gen EXCEPT !.state = state]
    /\ UNCHANGED <<latest_symbol_data, events, published>>

\* Line 63: the outer loop takes the next item of symbol_data.items(), from
\* position k on. The dict iterator raises RuntimeError when the dict has
\* grown since the iteration began (size is the size it began with).
AdvanceOuter(k, size) ==
    IF Len(symbol_order) # size THEN Stop("raised")
    ELSE LET j == NextKey(k)
         IN  IF j > Len(symbol_order) THEN Stop("done")
             ELSE LET s == symbol_order[j]
                      f == symbol_data[s]
                  IN  IF f.kind = "none" THEN Stop("raised")
                      ELSE Emit(s, f.rows[1],
                                [state |-> "suspended", size |-> size,
                                 si |-> j, rows |-> f.rows, bi |-> 1])

\* next(generator): run the body of stream_next_bar to its next yield.
StreamNext ==
    /\ gen.state \in {"created", "suspended"}
    /\ IF gen.state = "created"
       THEN AdvanceOuter(1, Len(symbol_order))
       ELSE IF gen.bi < Len(gen.rows)
            THEN Emit(symbol_order[gen.si], gen.rows[gen.bi + 1],
                      [gen EXCEPT !.bi = @ + 1])
            ELSE AdvanceOuter(gen.si + 1, gen.size)
    /\ UNCHANGED <<symbol_list, symbol_data, symbol_order, continue_backtest,
                   late_fetch, execVars, probeVars, evalVars>>

\* IBKRDataHandler.get_latest_bar_datetime(symbol)
get_latest_bar_datetime(s) ==
    IF latest_symbol_data[s] # <<>>
    THEN Value(latest_symbol_data[s][Len(latest_symbol_data[s])].date)
    ELSE NoValue

\* The lookup reading the first bar of the list instead of the last.
get_first_bar_value(s) ==
    IF latest_symbol_data[s] # <<>>
    THEN Value(latest_symbol_data[s][1].close)
    ELSE NoValue

\* IBKRDataHandler.get_latest_bar_value(symbol, 'close')
get_latest_bar_value(s) ==
    IF latest_symbol_data[s] # <<>>
    THEN Value(latest_symbol_data[s][Len(latest_symbol_data[s])].close)
    ELSE NoValue

\* --------------------------------------------- SimulatedExecutionHandler

\* The runs of the execution simulator that are compared with each other.
Runs == {1, 2}

\* The latest reading of the wall clock.
MaxClock == 1

\* The number of events handed to execute_order in one run.
MaxHanded == 3

\* The events handed to execute_order.
ExecInputs ==
    { OrderEvent("ES", "MKT", 100, "BUY"),
      OrderEvent("NQ", "MKT", 600, "SELL"),
      OrderEvent("ES", "MKT", 0, "BUY"),
      MarketEvent,
      SignalEvent("ES", 1, "LONG") }

\* SimulatedExecutionHandler.__init__ of every run, its queue empty
ExecInit ==
    /\ broker_events = [r \in Runs |-> <<>>]
    /\ exec_log = [r \in Runs |-> <<>>]
    /\ now = [r \in Runs |-> 0]

\* The wall clock of run r moves on.
Tick(r) ==
    /\ now[r] < MaxClock
    /\ now' = [now EXCEPT ![r] = @ + 1]
    /\ UNCHANGED <<dataVars, broker_events, exec_log, probeVars, evalVars>>

\* A fill of one share less than ordered.
OrderFillPartial(e, t) ==
    FillEvent(t, e.symbol, "ARCA", e.quantity - 1, e.direction, NoValue,
              NoValue)

\* What execute_order puts on the queue for event e at clock reading t.
OrderFill(e, t) ==
    FillEvent(t, e.symbol, "ARCA", e.quantity, e.direction, NoValue, NoValue)

\* SimulatedExecutionHandler.execute_order(event) in run r. The log keeps the
\* event with what the data source knew of its symbol when it was executed.
execute_order(r, e) ==
    /\ Len(exec_log[r]) < MaxHanded
    /\ broker_events' =
          [broker_events EXCEPT ![r] =
              IF e.type = "ORDER" THEN Append(@, OrderFill(e, now[r])) ELSE @]
    /\ exec_log' =
          [exec_log EXCEPT ![r] = Append(@,
              [event |-> e,
               known |-> e.type = "ORDER" /\ symbol_data[e.symbol] # Absent,
               price |-> IF e.type = "ORDER"
                         THEN get_latest_bar_value(e.symbol) ELSE NoValue,
               raised |-> FALSE])]
    /\ UNCHANGED <<dataVars, now, probeVars, evalVars>>

\* -------------------------------------------------------------- EvalAgent

\* What evaluating a factor expression can raise. SystemExit (the expression
\* calls exit()) is a BaseException that is no Exception.
Raisable == {"NameError", "SyntaxError", "ZeroDivisionError", "SystemExit"}

\* The subclasses of Exception among what can be raised.
ExceptionClass == {"KeyError", "NameError", "SyntaxError", "ZeroDivisionError"}

\* An except clause that names KeyError alone.
CaughtKeyErrorOnly(kind) == kind = "KeyError"

\* eval_agent.py line 32: except Exception
Caught(kind) == kind \in ExceptionClass

\* No call yet.
NoCall == [outcome |-> "idle", value |-> "none", raised |-> "none"]

\* The end of a call of _apply_factor in which kind was raised inside the try.
AfterRaise(kind) ==
    IF Caught(kind)
    THEN [outcome |-> "returned", value |-> "None", raised |-> kind]
    ELSE [outcome |-> "escaped", value |-> "none", raised |-> kind]

\* EvalAgent._apply_factor(factor_code, data): has_close says whether data has
\* a 'Close' column, res what eval(factor_code) does: "values" when it returns
\* the factor values, else the exception it raises.
apply_factor(has_close, res) ==
    /\ factor_result' =
          IF ~has_close THEN AfterRaise("KeyError")
          ELSE IF res = "values"
               THEN [outcome |-> "returned", value |-> "values",
                     raised |-> "none"]
               ELSE AfterRaise(res)
    /\ UNCHANGED <<dataVars, execVars, probeVars, eval_events, eval_result,
                   eval_prev>>

\* Statistics that follow the history evaluated instead of being fixed.
stats_of_history ==
    << <<"Total Return", "10.50%">>,
       <<"Sharpe Ratio", 400 * Len(symbol_data[symbol_list[1]].rows)>>,
       <<"Max Drawdown", "5.20%">>, <<"Drawdown Duration", "10">> >>

\* The statistics DummyPortfolio.output_summary_stats returns (lines 89-90);
\* the Sharpe ratio "1.5" is kept in thousandths.
output_summary_stats ==
    << <<"Total Return", "10.50%">>, <<"Sharpe Ratio", 1500>>,
       <<"Max Drawdown", "5.20%">>, <<"Drawdown Duration", "10">> >>

\* The Sharpe ratio _generate_feedback reads from the metrics: the value of
\* the last "Sharpe Ratio" entry, 0.0 when there is none.
RECURSIVE SharpeOf(_, _)
SharpeOf(metrics, k) ==
    IF k = 0 THEN 0
    ELSE IF metrics[k][1] = "Sharpe Ratio" THEN metrics[k][2]
         ELSE SharpeOf(metrics, k - 1)

\* EvalAgent._generate_feedback(performance_metrics)
generate_feedback(metrics) ==
    LET sharpe_ratio == SharpeOf(metrics, Len(metrics))
    IN  IF sharpe_ratio > 1000 THEN "promising"
        ELSE IF sharpe_ratio > 500 THEN "moderate"
        ELSE "poor"

\* What line 49 finds: symbol_data[symbol_list[0]].index[0].
StartDate ==
    IF symbol_list = <<>> THEN "unset"
    ELSE LET f == symbol_data[symbol_list[1]]
         IN  IF f.kind = "absent" THEN "absent"
             ELSE IF f.rows = <<>> THEN "empty" ELSE "found"

\* The factor expressions handed to evaluate_factor.
FactorCodes == {"Rank(ts_delta(close, 7))", "-Rank(ts_delta(close, 5))"}

\* The number of returns drawn for the dummy equity curve (100 in the code).
CurveLen == 2

\* What np.random.rand(...) * 0.01 - 0.005 can draw, in thousandths.
RandomReturns == [1..CurveLen -> {-5, 4}]

\* Line 83: (1 + dummy_returns).cumprod(); entry k is kept times 1000^k.
RECURSIVE cumprod(_, _)
cumprod(returns, k) ==
    IF k = 0 THEN <<>>
    ELSE LET head == cumprod(returns, k - 1)
         IN  Append(head, (IF k = 1 THEN 1 ELSE head[k - 1])
                              * (1000 + returns[k]))

\* The history evaluate_factor is called on: the rows of the first symbol.
EvaluatedHistory ==
    IF StartDate = "found" THEN symbol_data[symbol_list[1]].rows ELSE <<>>

\* EvalAgent.evaluate_factor(factor_code, data_handler), dummy_returns being
\* what line 82 draws: line 47 makes a queue of its own, line 49 raises
\* unless the first symbol of symbol_list has a fetched history with a first
\* bar, lines 82-96 make the dummy equity curve, statistics and feedback.
evaluate_factor(factor_code, dummy_returns) ==
    /\ eval_events' = <<>>
    /\ eval_prev' = eval_result
    /\ eval_result' =
          IF StartDate # "found"
          THEN [outcome |-> "raised", history |-> StartDate,
                factor_code |-> factor_code, data |-> EvaluatedHistory,
                equity_curve |-> <<>>,
                performance_metrics |-> <<>>, feedback |-> "none"]
          ELSE [outcome |-> "returned", history |-> StartDate,
                factor_code |-> factor_code, data |-> EvaluatedHistory,
                equity_curve |-> cumprod(dummy_returns, Len(dummy_returns)),
                performance_metrics |-> output_summary_stats,
                feedback |-> generate_feedback(output_summary_stats)]
    /\ UNCHANGED <<dataVars, execVars, probeVars, factor_result>>

\* No call of evaluate_factor yet.
NoEval ==
    [outcome |-> "idle", history |-> "unset", factor_code |-> "none",
     data |-> <<>>, equity_curve |-> <<>>, performance_metrics |-> <<>>,
     feedback |-> "none"]

\* EvalAgent() constructed, nothing evaluated.
EvalInit ==
    /\ eval_events = <<>>
    /\ eval_result = NoEval
    /\ eval_prev = NoEval
    /\ factor_result = NoCall

\* ------------------------------------------------------------- Portfolio

\* initial_capital=100000.0 of the Portfolio evaluate_factor makes, in
\* thousandths.
InitialCapital == 100000000

\* No Fill handed to on_fill yet.
NoApplied ==
    [fill |-> NoFill, before |-> InitialCapital, after |-> InitialCapital,
     raised |-> FALSE]

\* Portfolio(bars, events, start_date, initial_capital=100000.0)
PortInit ==
    /\ cash = InitialCapital
    /\ port_last = NoApplied

\* quantity x fill_cost, positive for a Buy and negative for a Sell.
signed_notional(fill) ==
    (IF fill.direction = "BUY" THEN 1 ELSE -1)
        * fill.quantity * fill.fill_cost.value

\* Portfolio.on_fill(fill) for the Fill at the head of the broker's queue:
\* cash moves by the signed notional and the commission; the product with
\* a fill_cost of None cannot be formed, the call raises and cash stays.
on_fill ==
    /\ broker_events[1] # <<>>
    /\ LET fill == Head(broker_events[1])
           after == IF fill.fill_cost.none THEN cash
                    ELSE cash - signed_notional(fill) - fill.commission
       IN  /\ cash' = after
           /\ port_last' = [fill |-> fill, before |-> cash, after |-> after,
                            raised |-> fill.fill_cost.none]
    /\ broker_events' = [broker_events EXCEPT ![1] = Tail(@)]
    /\ UNCHANGED <<dataVars, exec_log, now, probeVars, evalVars, mainVars>>

\* ------------------------------------------------------------------ main

\* The iterations of main's loop: range(5).
Iterations == 5

\* main before its first statement.
MainInit ==
    /\ main_pc = "connect"
    /\ main_i = 0
    /\ connected = FALSE
    /\ disconnect_calls = 0
    /\ agent_calls = 0
    /\ main_skipped = 0
    /\ main_exit = "running"

\* An exception leaving the try block without a finally clause.
AfterExceptionPropagates == "exited"

\* Where an exception raised in the try block of lines 27-86 goes: to the
\* finally clause.
AfterException == "finally"

\* Lines 21-25: IBKRDataHandler(events, ...) connects, or raises and main
\* returns.
MainConnect(ok) ==
    /\ main_pc = "connect"
    /\ connected' = ok
    /\ main_pc' = IF ok THEN "symbols" ELSE "exited"
    /\ main_exit' = IF ok THEN main_exit ELSE "connect_failed"
    /\ UNCHANGED <<main_i, disconnect_calls, agent_calls, main_skipped>>
    /\ UNCHANGED <<dataVars, execVars, probeVars, evalVars, portVars>>

\* Lines 29-30: data_handler.symbol_list = [contract.symbol]
MainSymbols ==
    /\ main_pc = "symbols"
    /\ SetSymbolList("ES")
    /\ main_pc' = "fetch"
    /\ UNCHANGED <<main_i, connected, disconnect_calls, agent_calls,
                   main_skipped, main_exit, portVars>>

\* Line 31: data_handler.fetch_historical_data(contract.symbol)
MainFetch(n) ==
    /\ main_pc = "fetch"
    /\ fetch_historical_data("ES", n)
    /\ main_pc' = "agents"
    /\ UNCHANGED <<main_i, connected, disconnect_calls, agent_calls,
                   main_skipped, main_exit, portVars>>

\* Lines 34-39: the agents are made and the idea is read.
MainAgents ==
    /\ main_pc = "agents"
    /\ main_pc' = "loop"
    /\ UNCHANGED <<main_i, connected, disconnect_calls, agent_calls,
                   main_skipped, main_exit>>
    /\ UNCHANGED <<dataVars, execVars, probeVars, evalVars, portVars>>

\* Line 45 and lines 84-86: the next iteration begins, or the loop is over
\* and the try block ends.
MainLoop ==
    /\ main_pc = "loop"
    /\ IF main_i < Iterations
       THEN /\ main_i' = main_i + 1
            /\ main_pc' = "propose"
            /\ main_exit' = main_exit
       ELSE /\ main_i' = main_i
            /\ main_pc' = "finally"
            /\ main_exit' = "completed"
    /\ UNCHANGED <<connected, disconnect_calls, agent_calls, main_skipped>>
    /\ UNCHANGED <<dataVars, execVars, probeVars, evalVars, portVars>>

\* Line 50: idea_agent.propose_hypothesis(user_idea)
MainPropose ==
    /\ main_pc = "propose"
    /\ agent_calls' = agent_calls + 1
    /\ main_pc' = "parse"
    /\ UNCHANGED <<main_i, connected, disconnect_calls, main_skipped,
                   main_exit>>
    /\ UNCHANGED <<dataVars, execVars, probeVars, evalVars, portVars>>

\* Lines 51-52: json.loads(hypothesis_json) and hypothesis['Argument']
MainParse ==
    /\ main_pc = "parse"
    /\ main_pc' = "construct"
    /\ UNCHANGED <<main_i, connected, disconnect_calls, agent_calls,
                   main_skipped, main_exit>>
    /\ UNCHANGED <<dataVars, execVars, probeVars, evalVars, portVars>>

\* Lines 56-60: factor_agent.construct_factor(hypothesis); a factor with
\* "Error" in it ends the iteration.
MainConstruct(rejected) ==
    /\ main_pc = "construct"
    /\ agent_calls' = agent_calls + 1
    /\ main_pc' = IF rejected THEN "loop" ELSE "evaluate"
    /\ main_skipped' = IF rejected THEN main_skipped + 1 ELSE main_skipped
    /\ UNCHANGED <<main_i, connected, disconnect_calls, main_exit>>
    /\ UNCHANGED <<dataVars, execVars, probeVars, evalVars, portVars>>

\* Lines 65-81: eval_agent.evaluate_factor(factor_code, data_handler); what
\* it raises leaves the try block.
MainEvaluate(factor_code, dummy_returns) ==
    /\ main_pc = "evaluate"
    /\ evaluate_factor(factor_code, dummy_returns)
    /\ agent_calls' = agent_calls + 1
    /\ main_pc' = IF StartDate = "found" THEN "loop" ELSE AfterException
    /\ main_exit' = IF StartDate = "found" THEN main_exit ELSE "raised"
    /\ UNCHANGED <<main_i, connected, disconnect_calls, main_skipped,
                   portVars>>

\* An exception raised in the try block by the fetch of line 31, the input
\* of line 39, an agent's call or the parsing of lines 51-52.
MainRaise ==
    /\ main_pc \in {"fetch", "agents", "propose", "parse", "construct"}
    /\ agent_calls' =
          IF main_pc \in {"propose", "construct"} THEN agent_calls + 1
          ELSE agent_calls
    /\ main_pc' = AfterException
    /\ main_exit' = "raised"
    /\ UNCHANGED <<main_i, connected, disconnect_calls, main_skipped>>
    /\ UNCHANGED <<dataVars, execVars, probeVars, evalVars, portVars>>

\* Lines 88-91, the finally clause: data_handler.disconnect()
MainFinally ==
    /\ main_pc = "finally"
    /\ disconnect_calls' = disconnect_calls + 1
    /\ main_pc' = "exited"
    /\ UNCHANGED <<main_i, connected, agent_calls, main_skipped, main_exit>>
    /\ UNCHANGED <<dataVars, execVars, probeVars, evalVars, portVars>>

\* ------------------------------------------------------ specifications

vars == <<dataVars, execVars, probeVars, evalVars, portVars, mainVars>>

Init ==
    /\ DataInit /\ ExecInit /\ ProbeIdle /\ EvalInit
    /\ PortInit /\ MainInit

\* The data handler: histories fetched and streamed bar by bar.
Next ==
    \/ \E s \in Symbols :
          SetSymbolList(s) /\ UNCHANGED <<portVars, mainVars>>
    \/ \E s \in Symbols, n \in 0..MaxBars :
          fetch_historical_data(s, n) /\ UNCHANGED <<portVars, mainVars>>
    \/ stream_next_bar /\ UNCHANGED <<portVars, mainVars>>
    \/ StreamNext /\ UNCHANGED <<portVars, mainVars>>

Spec == Init /\ [][Next]_vars

\* The evaluation agent beside a data handler whose histories are fetched.
NextEval ==
    \/ \E s \in Symbols :
          SetSymbolList(s) /\ UNCHANGED <<portVars, mainVars>>
    \/ \E s \in Symbols, n \in 0..MaxBars :
          fetch_historical_data(s, n) /\ UNCHANGED <<portVars, mainVars>>
    \/ evaluate_factor("-Rank(ts_delta(close, 5))", [i \in 1..CurveLen |-> 4])
          /\ UNCHANGED <<portVars, mainVars>>
    \/ \E c \in BOOLEAN, res \in {"values"} \cup Raisable :
          apply_factor(c, res) /\ UNCHANGED <<portVars, mainVars>>

SpecEval == Init /\ [][NextEval]_vars

\* Evaluations of factor expressions on fetched histories.
NextStats ==
    \/ \E s \in Symbols :
          SetSymbolList(s) /\ UNCHANGED <<portVars, mainVars>>
    \/ \E s \in Symbols, n \in 0..MaxBars :
          fetch_historical_data(s, n) /\ UNCHANGED <<portVars, mainVars>>
    \/ \E c \in FactorCodes, r \in RandomReturns :
          evaluate_factor(c, r) /\ UNCHANGED <<portVars, mainVars>>

SpecStats == Init /\ [][NextStats]_vars

\* An evaluation beside a data handler that streams one symbol's history.
NextQueue ==
    \/ SetSymbolList("ES") /\ UNCHANGED <<portVars, mainVars>>
    \/ fetch_historical_data("ES", MaxBars)
          /\ UNCHANGED <<portVars, mainVars>>
    \/ stream_next_bar /\ UNCHANGED <<portVars, mainVars>>
    \/ StreamNext /\ UNCHANGED <<portVars, mainVars>>
    \/ \E c \in FactorCodes :
          evaluate_factor(c, [i \in 1..CurveLen |-> 4])
              /\ UNCHANGED <<portVars, mainVars>>

SpecQueue == Init /\ [][NextQueue]_vars

\* The execution simulator of one run beside a data source of one symbol.
NextExec ==
    \/ fetch_historical_data("ES", MaxBars)
          /\ UNCHANGED <<portVars, mainVars>>
    \/ stream_next_bar /\ UNCHANGED <<portVars, mainVars>>
    \/ StreamNext /\ UNCHANGED <<portVars, mainVars>>
    \/ Tick(1) /\ UNCHANGED <<portVars, mainVars>>
    \/ \E e \in ExecInputs :
          execute_order(1, e) /\ UNCHANGED <<portVars, mainVars>>

SpecExec == Init /\ [][NextExec]_vars

\* Two runs of the execution simulator, each with a wall clock of its own.
NextDet ==
    \/ \E r \in Runs :
          Tick(r) /\ UNCHANGED <<portVars, mainVars>>
    \/ \E r \in Runs, e \in ExecInputs :
          execute_order(r, e) /\ UNCHANGED <<portVars, mainVars>>

SpecDet == Init /\ [][NextDet]_vars

\* The construction of fills for every pair of quantities.
InitComm ==
    /\ DataInit /\ ExecInit /\ ProbeInit /\ EvalInit
    /\ PortInit /\ MainInit

NextComm == ConstructFills /\ UNCHANGED <<portVars, mainVars>>

SpecComm == InitComm /\ [][NextComm]_vars

\* The execution simulator's Fills applied to the Portfolio.
NextPort ==
    \/ \E e \in ExecInputs :
          execute_order(1, e) /\ UNCHANGED <<portVars, mainVars>>
    \/ on_fill

SpecPort == Init /\ [][NextPort]_vars

\* One run of main.
NextMain ==
    \/ \E ok \in BOOLEAN : MainConnect(ok)
    \/ MainSymbols
    \/ \E n \in 0..MaxBars : MainFetch(n)
    \/ MainAgents
    \/ MainLoop
    \/ MainPropose
    \/ MainParse
    \/ \E rejected \in BOOLEAN : MainConstruct(rejected)
    \/ \E c \in FactorCodes, r \in RandomReturns : MainEvaluate(c, r)
    \/ MainRaise
    \/ MainFinally

SpecMain == Init /\ [][NextMain]_vars

\* ------------------------------------------------------------- the claims

\* The entries of run r's log that are Orders, in the order handed over.
IsOrderEntry(x) == x.event.type = "ORDER"
OrdersOf(r) == SelectSeq(exec_log[r], IsOrderEntry)

\* The events handed to execute_order in run r.
EventsOf(r) == [i \in 1..Len(exec_log[r]) |-> exec_log[r][i].event]

\* C1: the Fills on the execution handler's queue are, one for one and in
\* order, the Orders handed to execute_order: the i-th Fill has the symbol,
\* direction and whole quantity of the i-th Order, and an event that is no
\* Order puts nothing on the queue.
C1_FillsMatchOrders ==
    \A r \in Runs :
        /\ Len(broker_events[r]) = Len(OrdersOf(r))
        /\ \A i \in 1..Len(broker_events[r]) :
              /\ broker_events[r][i].type = "FILL"
              /\ broker_events[r][i].symbol = OrdersOf(r)[i].event.symbol
              /\ broker_events[r][i].direction = OrdersOf(r)[i].event.direction
              /\ broker_events[r][i].quantity = OrdersOf(r)[i].event.quantity

\* C1's case: two different Orders with an event that is no Order between
\* them have been handed over, and two Fills are on the queue.
C1_Witness ==
    /\ Len(exec_log[1]) = 3
    /\ exec_log[1][1].event = OrderEvent("NQ", "MKT", 600, "SELL")
    /\ exec_log[1][2].event = MarketEvent
    /\ exec_log[1][3].event = OrderEvent("ES", "MKT", 100, "BUY")
    /\ Len(broker_events[1]) = 2
    /\ broker_events[1][1].quantity = 600
    /\ broker_events[1][2].symbol = "ES"

\* C2: the fill_cost of the Fill of every executed Order is the close of the
\* bar last streamed for the Order's symbol when it was executed.
C2_FillAtLastPrice ==
    \A r \in Runs :
        \A i \in 1..Len(OrdersOf(r)) :
            (i <= Len(broker_events[r]) /\ ~OrdersOf(r)[i].price.none)
                => broker_events[r][i].fill_cost = OrdersOf(r)[i].price

\* The commission of the schedule as the specification writes it.
ReferenceCommission(qty) ==
    IF qty <= 500 THEN Max(1300, 13 * qty) ELSE Max(1300, 8 * qty)

\* C3: the commission of a Fill constructed without a commission is that of
\* the reference schedule, for every quantity.
C3_CommissionSchedule ==
    \A i \in 1..2 :
        probe_fill[i] # NoFill
            => probe_fill[i].commission = ReferenceCommission(probe_qty[i])

\* C3's case: fills constructed at the break-even point of the first tier and
\* just above the tier boundary.
C3_Witness ==
    /\ probe_qty = <<100, 501>>
    /\ probe_fill[1] # NoFill
    /\ probe_fill[1].commission = 1300
    /\ probe_fill[2].commission = 4008

\* Two quantities of the same tier.
SameTier(a, b) == (a <= 500 /\ b <= 500) \/ (a > 500 /\ b > 500)

\* C4: the commission is at least 1.30 for every quantity from 0 on, and it
\* does not decrease as the quantity grows within a tier.
C4_CommissionFloorMonotone ==
    probe_fill[1] # NoFill =>
        /\ \A i \in 1..2 : probe_fill[i].commission >= 1300
        /\ (SameTier(probe_qty[1], probe_qty[2]) /\ probe_qty[1] <= probe_qty[2])
              => probe_fill[1].commission <= probe_fill[2].commission

\* C4's case: two quantities of the first tier, one under the minimum and one
\* above it, with their fills constructed.
C4_Witness ==
    /\ probe_qty = <<0, 500>>
    /\ probe_fill[2] # NoFill
    /\ probe_fill[1].commission < probe_fill[2].commission

\* C5: the stream is bar-synchronous over the symbols: bar N+1 of a symbol
\* is published only after bar N of every symbol that has a bar N.
C5_BarSynchronous ==
    \A p \in 1..Len(published) :
        \A t \in Symbols :
            (/\ published[p].date > 1
             /\ symbol_data[t].kind = "frame"
             /\ Len(symbol_data[t].rows) >= published[p].date - 1)
                => \E q \in 1..(p - 1) :
                      published[q] = Bar(t, published[p].date - 1)

\* C6: once the generator has streamed the last bar of the histories and
\* returned, the data source reports exhaustion: continue_backtest is no
\* longer true.
C6_ExhaustionReported ==
    (gen.state = "done" /\ published # <<>>) => ~continue_backtest

\* C7: evaluate_factor on a data handler whose fetched history has no bars
\* returns a result; it does not raise.
C7_ZeroBarsReturns ==
    eval_result.history = "empty" => eval_result.outcome = "returned"

\* C8: two runs handed the same events put the same Fills on their queues,
\* equal in every field, whatever their wall clocks read.
C8_Deterministic ==
    EventsOf(1) = EventsOf(2) => broker_events[1] = broker_events[2]

\* An Order of quantity <= 0, or of a symbol the data source has not fetched.
InvalidOrder(x) ==
    x.event.type = "ORDER" /\ (x.event.quantity <= 0 \/ ~x.known)

\* The number of Orders among the first k events of run r.
OrdersBefore(r, k) == Len(SelectSeq(SubSeq(exec_log[r], 1, k), IsOrderEntry))

\* C9: executing an invalid Order raises, puts no Fill on the queue and ends
\* the run: no event is executed after it.
C9_InvalidOrderRejected ==
    \A r \in Runs :
        \A i \in 1..Len(exec_log[r]) :
            InvalidOrder(exec_log[r][i]) =>
                /\ exec_log[r][i].raised
                /\ i = Len(exec_log[r])
                /\ Len(broker_events[r]) = OrdersBefore(r, i - 1)

\* The errors applying a factor can raise: KeyError for a missing column, and
\* what the evaluation of the expression raises.
ScoringErrors == {"KeyError", "NameError", "SyntaxError", "ZeroDivisionError"}

\* C10: when applying the factor raises an error, _apply_factor returns the
\* failure value None, no exception escapes, and the call leaves every event
\* queue as it was: no Signal is emitted.
C10_ScoringFailureReported ==
    /\ [](factor_result.raised \in ScoringErrors
            => (factor_result.outcome = "returned"
                /\ factor_result.value = "None"))
    /\ [][(factor_result' # factor_result
            /\ factor_result'.raised \in ScoringErrors)
            => (/\ events' = events
                /\ eval_events' = eval_events
                /\ broker_events' = broker_events)]_vars

\* C10's case: the evaluation of the expression raised NameError and the call
\* returned None.
C10_Witness ==
    /\ factor_result.raised = "NameError"
    /\ factor_result.outcome = "returned"
    /\ factor_result.value = "None"

\* The bars of symbol s among those published, in the order published.
PublishedOf(s) ==
    LET OfSymbol(b) == b.symbol = s IN SelectSeq(published, OfSymbol)

\* s is a prefix of t.
IsPrefix(s, t) == Len(s) <= Len(t) /\ s = SubSeq(t, 1, Len(s))

\* The latest-bar view of every symbol is a prefix of the history fetched
\* for it, the history is what the request returned, and the two lookups
\* give the fields of the bar of the symbol streamed last, None before any.
LatestViewFaithful ==
    \A s \in Symbols :
        /\ IsPrefix(latest_symbol_data[s], symbol_data[s].rows)
        /\ symbol_data[s].rows = History(s, Len(symbol_data[s].rows))
        /\ IF PublishedOf(s) = <<>>
           THEN /\ get_latest_bar_value(s) = NoValue
                /\ get_latest_bar_datetime(s) = NoValue
           ELSE LET last == PublishedOf(s)[Len(PublishedOf(s))]
                IN  /\ get_latest_bar_value(s) = Value(last.close)
                    /\ get_latest_bar_datetime(s) = Value(last.date)

\* C13 as stated: in every state reached by fetching and streaming, the
\* latest-bar view is a prefix of the fetched history and the lookups return
\* the bar streamed last, or None.
C13_LatestViewAlways == LatestViewFaithful

\* C13 as amended: the same, as long as no history is fetched after the
\* generator has taken its first step.
C13_LatestViewFetchFirst == ~late_fetch => LatestViewFaithful

\* C13's case: both bars of ES streamed, NQ fetched and not yet streamed.
C13_Witness ==
    /\ ~late_fetch
    /\ published = <<Bar("ES", 1), Bar("ES", 2)>>
    /\ symbol_data["NQ"].rows # <<>>
    /\ get_latest_bar_value("ES") = Value(BarClose("ES", 2))
    /\ get_latest_bar_value("NQ") = NoValue

\* The number of Market events on a queue.
IsMarket(e) == e.type = "MARKET"
MarketsOn(q) == Len(SelectSeq(q, IsMarket))

\* C12: two evaluations of the same factor on the same history produce the
\* same equity curve and the same statistics: nothing random enters them.
C12_StatsDeterministic ==
    (/\ eval_prev.outcome = "returned"
     /\ eval_result.outcome = "returned"
     /\ eval_prev.factor_code = eval_result.factor_code
     /\ eval_prev.data = eval_result.data)
        => /\ eval_prev.equity_curve = eval_result.equity_curve
           /\ eval_prev.performance_metrics = eval_result.performance_metrics

\* C14: every Market event the data handler has pushed is on the queue of
\* the evaluation run, the one its Portfolio and execution handler were
\* given: there is one queue, and the data handler's is that queue.
C14_OneQueue ==
    eval_result.outcome # "idle"
        => /\ eval_events = events
           /\ MarketsOn(events) <= MarketsOn(eval_events)

C11_CashUpdate ==
    port_last.fill.type = "FILL"
        => /\ ~port_last.fill.fill_cost.none
           /\ ~port_last.raised
           /\ port_last.after = port_last.before
                                  - signed_notional(port_last.fill)
                                  - port_last.fill.commission

\* C15: disconnect is never called twice; when main has left after a
\* connection was made disconnect has been called once, whatever the way
\* out; without a connection no agent has run and disconnect has not been
\* called.
C15_DisconnectOnce ==
    /\ disconnect_calls <= 1
    /\ ~connected => disconnect_calls = 0 /\ agent_calls = 0
    /\ main_pc = "exited" =>
          /\ main_exit \in {"connect_failed", "completed", "raised"}
          /\ main_exit = "connect_failed" <=> ~connected
          /\ connected => disconnect_calls = 1
    /\ main_exit = "completed" => main_i = Iterations

\* C15's case: main has left by an exception raised after an iteration
\* was skipped for a rejected factor, and disconnect was called once.
C15_Witness ==
    /\ main_pc = "exited"
    /\ connected
    /\ main_exit = "raised"
    /\ main_skipped > 0
    /\ agent_calls > 2
    /\ disconnect_calls = 1

====
